---------------------------- MODULE Spec2Model ----------------------------
(***************************************************************************)
(* A model of vibrato-worker (src/src/main.rs): the length-prefixed JSON   *)
(* session loop, the word/whitespace segmenter split_words, the feature    *)
(* mapping of VibratoWorker::tokenize and the pipeline tokenize_lines.     *)
(*                                                                         *)
(* A Rust str is a sequence of chars; a char is named by a TLA+ string     *)
(* ("a", " ", "U3042" for HIRAGANA A, "U3000" for IDEOGRAPHIC SPACE).      *)
(* Byte offsets into a str are computed from len_utf8 of its chars.        *)
(***************************************************************************)
EXTENDS Integers, Sequences, FiniteSets, TLC

VARIABLES
    s,          \* split_words: the line being segmented
    iter,       \* split_words: captured state of the closure (it, category, pos)
    runs,       \* split_words: the items the iterator has yielded so far
    segState,   \* split_words: "idle" | "iterating" | "finished" | "panicked"
    tk,         \* tokenize: the token of the `for tk in tokens` body
    value,      \* tokenize: what the body pushed for tk (None before it ran)
    dict,       \* VibratoWorker: the dictionary the tokenizer was built from
    worker,     \* VibratoWorker.inner: the Analyzer's sentence and tokens, and
                \* (history) the sentences it was asked to tokenize
    text,       \* tokenize_lines: its argument s
    lineNo,     \* tokenize_lines: how many lines s.lines() has handed out
    res,        \* tokenize_lines: the Vec res
    groups,     \* tokenize_lines: (history) per part handled, its line, its
                \* text, what it added to res and the Analyzer calls so far
    pipeState,  \* tokenize_lines: "idle" | "lines" | "parts" | "returned" | "panicked"
    sin,        \* do_stuff: what stdin still holds (whole frames, then how it ends)
    sout,       \* do_stuff: what each call of send_message did to stdout
    msg,        \* do_stuff: what the last get_message returned
    received,   \* do_stuff: (history) the requests get_message has returned
    pc,         \* do_stuff: "idle" | "recv" | "match" | "exited" | "panicked"
    endian,     \* the target's byte order, for to_ne_bytes and from_ne_bytes
    wire,       \* a byte stream: what send_message wrote, get_message reads
    rpos,       \* get_message: how many bytes of wire the reader has consumed
    gets,       \* get_message: (history) per call, where it began and ended
                \* on wire and what it returned
    puts,       \* send_message: (history) per call, its value, where it began
                \* and ended on wire and whether it returned Ok
    payloadLen, \* send_message: s.len(), a usize as its eight base-256 digits
    prefix      \* send_message: the four bytes `(s.len() as u32).to_ne_bytes()`

segVars == <<s, iter, runs, segState>>

mapVars == <<tk, value>>

workerVars == <<dict, worker>>

pipeVars == <<text, lineNo, res, groups, pipeState>>

sessVars == <<sin, sout, msg, received, pc>>

frameVars == <<endian, wire, rpos, gets, puts, payloadLen, prefix>>

vars == <<s, iter, runs, segState, tk, value, dict, worker,
          text, lineNo, res, groups, pipeState, sin, sout, msg, received, pc,
          endian, wire, rpos, gets, puts, payloadLen, prefix>>

(***************************************************************************)
(* Bounds of the model.                                                    *)
(***************************************************************************)
MaxLineLen == 4

MaxRepeat == 12

MaxTail == 2

MaxTextLen == 4

MaxFrames == 2

MaxChunks == 2

MaxSends == 2

(***************************************************************************)
(* Option<T>                                                               *)
(***************************************************************************)
None == [some |-> FALSE]

Some(x) == [some |-> TRUE, val |-> x]

(***************************************************************************)
(* chars and strs                                                          *)
(***************************************************************************)
\* char::is_whitespace: the Unicode White_Space property.
IsWhitespace(c) == c \in {" ", "\t", "\n", "\r", "U3000"}

\* char::len_utf8
LenUtf8(c) ==
    CASE c \in {"U3042", "U3000"} -> 3
      [] c = "U00E9" -> 2
      [] OTHER -> 1

RECURSIVE ByteLen(_)
\* str::len: the length in bytes
ByteLen(str) ==
    IF str = <<>> THEN 0 ELSE LenUtf8(Head(str)) + ByteLen(Tail(str))

\* str::is_char_boundary
IsCharBoundary(str, b) ==
    \E i \in 0..Len(str) : ByteLen(SubSeq(str, 1, i)) = b

\* The number of chars of str that lie before byte offset b (a char boundary).
CharsBefore(str, b) ==
    CHOOSE i \in 0..Len(str) : ByteLen(SubSeq(str, 1, i)) = b

\* &s[lo..hi]: the slice by byte offsets; it panics off a char boundary or
\* out of range.
SliceOk(str, lo, hi) ==
    lo <= hi /\ IsCharBoundary(str, lo) /\ IsCharBoundary(str, hi)

StrSlice(str, lo, hi) ==
    SubSeq(str, CharsBefore(str, lo) + 1, CharsBefore(str, hi))

(***************************************************************************)
(* serde_json::Value.  A JSON string holds a str (a sequence of chars); an *)
(* object is a function from its keys to values.                           *)
(***************************************************************************)
JNull == [t |-> "null"]

JBool(b) == [t |-> "bool", v |-> b]

JNum(n) == [t |-> "num", v |-> n]

JStr(str) == [t |-> "str", v |-> str]

JArr(seq) == [t |-> "arr", v |-> seq]

JObj(f) == [t |-> "obj", v |-> f]

Min(a, b) == IF a <= b THEN a ELSE b

RECURSIVE Concat(_)
\* Iterator::flatten / Vec::extend over a sequence of sequences.
Concat(ss) == IF ss = <<>> THEN <<>> ELSE Head(ss) \o Concat(Tail(ss))

(***************************************************************************)
(* VibratoWorker::tokenize: the body of `for tk in tokens`                 *)
(***************************************************************************)
\* const DATA: the names bound to the sub-fields, in order.
DATA ==
    << <<"p", "o", "s">>,
       <<"p", "o", "s", "2">>,
       <<"p", "o", "s", "3">>,
       <<"p", "o", "s", "4">>,
       <<"i", "n", "f", "l", "e", "c", "t", "i", "o", "n", "_", "t", "y", "p", "e">>,
       <<"i", "n", "f", "l", "e", "c", "t", "i", "o", "n", "_", "f", "o", "r", "m">>,
       <<"l", "e", "m", "m", "a", "_", "r", "e", "a", "d", "i", "n", "g">>,
       <<"l", "e", "m", "m", "a">>,
       <<"e", "x", "p", "r", "e", "s", "s", "i", "o", "n">>,
       <<"r", "e", "a", "d", "i", "n", "g">>,
       <<"e", "x", "p", "r", "e", "s", "s", "i", "o", "n", "_", "b", "a", "s", "e">>,
       <<"r", "e", "a", "d", "i", "n", "g", "_", "b", "a", "s", "e">> >>

\* The index of the first occurrence of the char sep in str, 0 when absent.
FindChar(str, sep) ==
    IF \E i \in 1..Len(str) : str[i] = sep
    THEN CHOOSE i \in 1..Len(str) :
            str[i] = sep /\ \A j \in 1..i - 1 : str[j] # sep
    ELSE 0

RECURSIVE Split(_, _)
\* str::split(sep) for a char sep: every piece between separators, the
\* empty ones included; a str without the separator is its only piece.
Split(str, sep) ==
    LET i == FindChar(str, sep) IN
    IF i = 0 THEN <<str>>
    ELSE <<SubSeq(str, 1, i - 1)>> \o Split(SubSeq(str, i + 1, Len(str)), sep)

\* The closure of `.map(...)`: "*" becomes None.
Wildcard(piece) == IF piece = <<"*">> THEN None ELSE Some(piece)

\* `info` with the split on '-' left out.
FeatureInfo_CommaOnly(feature) ==
    LET pieces == Split(feature, ",") IN
    [i \in 1..Len(pieces) |-> Wildcard(pieces[i])]

\* `info`: tk.feature().split(',').flat_map(|f| f.split('-')).map(...)
FeatureInfo(feature) ==
    LET fields == Split(feature, ",")
        pieces == Concat([i \in 1..Len(fields) |-> Split(fields[i], "-")])
    IN  [i \in 1..Len(pieces) |-> Wildcard(pieces[i])]

\* Iterator::zip: as long as the shorter of the two.
Zip(a, b) == [i \in 1..Min(Len(a), Len(b)) |-> <<a[i], b[i]>>]

\* serde_json::to_value of a Vec<(String, Option<String>)>: a tuple is
\* serialized as an array, None as null.
PairsToValue(pairs) ==
    JArr([i \in 1..Len(pairs) |->
            JArr(<<JStr(pairs[i][1]),
                   IF pairs[i][2].some THEN JStr(pairs[i][2].val) ELSE JNull>>)])

\* The loop body with `value` starting out empty.
TokenValue_NoSource(token) ==
    PairsToValue(Zip(DATA, FeatureInfo(token.feature)))

\* What the loop body pushes for one token.
TokenValue(token) ==
    LET val == <<<<<<"s", "o", "u", "r", "c", "e">>, Some(token.surface)>>>>
               \o Zip(DATA, FeatureInfo(token.feature))
    IN  PairsToValue(val)

(***************************************************************************)
(* Category and split_words                                                *)
(***************************************************************************)
\* Category::from that takes only the ASCII space for whitespace.
CategoryFrom_AsciiSpace(c) == IF c = " " THEN "Whitespace" ELSE "Word"

\* Category::from
CategoryFrom(c) == IF IsWhitespace(c) THEN "Whitespace" ELSE "Word"

\* The closure's captured variables right after split_words(s) returns.
SplitWordsInit == [it |-> 0, category |-> None, pos |-> 0]

\* `sum += ch.len_utf8()` off by treating every char as one byte.
Advance_OneByte(sum, ch) == sum + 1

\* sum += ch.len_utf8()
Advance(sum, ch) == sum + LenUtf8(ch)

\* What a call of the closure hands back: the item (None ends the
\* iteration), the captured variables after the call, and whether the slice
\* panicked.
Yield(str, lo, hi, st) ==
    IF SliceOk(str, lo, hi)
    THEN [item |-> Some(StrSlice(str, lo, hi)), st |-> st, panic |-> FALSE]
    ELSE [item |-> None, st |-> st, panic |-> TRUE]

\* The arm `Some(_) =>` without `category = None`.
CloseRun_KeepCategory(str, st, sum) ==
    Yield(str, st.pos, st.pos + sum,
          [it |-> st.it, category |-> st.category, pos |-> st.pos + sum])

\* The arm `Some(_) =>`: the peeked char starts another run.
CloseRun(str, st, sum) ==
    Yield(str, st.pos, st.pos + sum,
          [it |-> st.it, category |-> None, pos |-> st.pos + sum])

RECURSIVE SplitWordsLoop(_, _, _)
\* The `while let Some(ch) = iter.peek()` loop and the code after it.
SplitWordsLoop(str, st, sum) ==
    IF st.it < Len(str)
    THEN LET ch == str[st.it + 1] IN
         IF st.category.some /\ CategoryFrom(ch) = st.category.val
         THEN SplitWordsLoop(str, [st EXCEPT !.it = @ + 1], Advance(sum, ch))
         ELSE IF st.category.some
         THEN CloseRun(str, st, sum)
         ELSE SplitWordsLoop(str,
                  [st EXCEPT !.it = @ + 1, !.category = Some(CategoryFrom(ch))],
                  Advance(sum, ch))
    ELSE IF sum = 0
         THEN [item |-> None, st |-> st, panic |-> FALSE]
         ELSE Yield(str, st.pos, st.pos + sum, st)

\* One call of the closure of split_words.
SplitWordsNext(str, st) == SplitWordsLoop(str, st, 0)

(***************************************************************************)
(* The Analyzer (vibrato's Worker) and VibratoWorker::tokenize             *)
(***************************************************************************)
\* Raw feature strings of the model's dictionaries: eight sub-fields with
\* wildcards and a dash, thirteen sub-fields, a lone wildcard.
FeatNoun ==
    <<"N", ",", "G", ",", "*", ",", "*", ",", "*", ",", "*", ",", "R", "-", "R">>

FeatLong ==
    <<"1", ",", "2", ",", "3", ",", "4", ",", "5", ",", "6", ",", "7", ",",
      "8", ",", "9", ",", "A", ",", "B", ",", "C", ",", "D">>

FeatWild == <<"*">>

\* The dictionaries of the model: one whose Analyzer emits no token, one
\* that emits the sentence as one token, one that emits a token per char.
Dicts == {"none", "whole", "chars"}

\* The tokens the Analyzer emits, in order, for a sentence.
Analyze(d, sentence) ==
    CASE d = "whole" ->
            IF sentence = <<>> THEN <<>>
            ELSE <<[surface |-> sentence, feature |-> FeatNoun]>>
      [] d = "chars" ->
            [i \in 1..Len(sentence) |->
                [surface |-> <<sentence[i]>>,
                 feature |-> IF sentence[i] = "a" THEN FeatLong ELSE FeatWild]]
      [] OTHER -> <<>>

\* The worker tokenizer.new_worker() builds.
NewWorker == [sentence |-> <<>>, tokens |-> <<>>, calls |-> <<>>]

\* reset_sentence that keeps the sentence of the call before.
WorkerResetSentence_Stale(w, str) ==
    [w EXCEPT !.tokens = <<>>, !.calls = Append(@, str)]

\* worker.reset_sentence(s)
WorkerResetSentence(w, str) ==
    [w EXCEPT !.sentence = str, !.tokens = <<>>, !.calls = Append(@, str)]

\* A tokenize that analyzes the first sentence the worker was ever given.
WorkerTokenize_FirstSentence(d, w) ==
    [w EXCEPT !.tokens = Analyze(d, w.calls[1])]

\* worker.tokenize()
WorkerTokenize(d, w) == [w EXCEPT !.tokens = Analyze(d, w.sentence)]

\* VibratoWorker::tokenize: the Vec it returns and the worker afterwards.
Tokenize(d, w, str) ==
    LET w2 == WorkerTokenize(d, WorkerResetSentence(w, str))
        header == JObj("source" :> JStr(str))
    IN  [out |-> <<header>> \o [i \in 1..Len(w2.tokens) |-> TokenValue(w2.tokens[i])],
         worker |-> w2]

(***************************************************************************)
(* generate_dummy_data and VibratoWorker::tokenize_lines                   *)
(***************************************************************************)
GenerateDummyData(str) ==
    JObj(("source" :> JStr(str)) @@ ("ipadic" :> JNull)
         @@ ("ipadic-neologd" :> JNull) @@ ("unidic-mecab-translate" :> JNull))

\* A line that keeps the "\r" before its "\n".
StripCR_Keep(line) == line

\* A line without the "\r" that ended it before its "\n".
StripCR(line) ==
    IF line # <<>> /\ line[Len(line)] = "\r"
    THEN SubSeq(line, 1, Len(line) - 1) ELSE line

RECURSIVE Lines(_)
\* str::lines: the pieces ended by "\n" or "\r\n", the terminator left
\* out; what follows the last "\n" is a line too unless it is empty.
Lines(str) ==
    LET i == FindChar(str, "\n") IN
    IF str = <<>> THEN <<>>
    ELSE IF i = 0 THEN <<str>>
    ELSE <<StripCR(SubSeq(str, 1, i - 1))>> \o Lines(SubSeq(str, i + 1, Len(str)))

\* A trim that knows only the ASCII whitespace.
Trim_Ascii(str) ==
    LET keep == {i \in 1..Len(str) : str[i] \notin {" ", "\t", "\n", "\r"}} IN
    IF keep = {} THEN <<>>
    ELSE SubSeq(str, CHOOSE i \in keep : \A j \in keep : i <= j,
                     CHOOSE i \in keep : \A j \in keep : i >= j)

\* str::trim: without its leading and trailing whitespace.
Trim(str) ==
    LET keep == {i \in 1..Len(str) : ~IsWhitespace(str[i])} IN
    IF keep = {} THEN <<>>
    ELSE SubSeq(str, CHOOSE i \in keep : \A j \in keep : i <= j,
                     CHOOSE i \in keep : \A j \in keep : i >= j)

\* Records put in front of res.
Extend_Front(vec, items) == items \o vec

\* res.extend(...), and res.push for a single item
Extend(vec, items) == vec \o items

\* tokenize_lines at its first line.
TokenizeLinesInit(w, str) ==
    [text |-> str, lineNo |-> 0, line |-> <<>>, iter |-> SplitWordsInit,
     res |-> <<>>, worker |-> w, groups |-> <<>>, st |-> "lines"]

\* The body of `for part in split_words(line)` for one part.
HandlePart(d, p, part) ==
    IF Trim(part) = <<>>
    THEN [p EXCEPT
            !.res = Extend(@, <<GenerateDummyData(part)>>),
            !.groups = Append(@, [line |-> p.lineNo, part |-> part,
                                  recs |-> <<GenerateDummyData(part)>>,
                                  calls |-> Len(p.worker.calls)])]
    ELSE LET tz == Tokenize(d, p.worker, part) IN
         [p EXCEPT
            !.res = Extend(@, tz.out),
            !.worker = tz.worker,
            !.groups = Append(@, [line |-> p.lineNo, part |-> part,
                                  recs |-> tz.out,
                                  calls |-> Len(tz.worker.calls)])]

\* One step of the two loops of tokenize_lines: the outer `for` takes the
\* next line or the function returns Ok(res); the inner `for` takes the
\* next part of the line and handles it, or is over.
TokenizeLinesStep(d, p) ==
    CASE p.st = "lines" ->
            IF p.lineNo < Len(Lines(p.text))
            THEN [p EXCEPT !.lineNo = @ + 1,
                           !.line = Lines(p.text)[p.lineNo + 1],
                           !.iter = SplitWordsInit,
                           !.st = "parts"]
            ELSE [p EXCEPT !.st = "returned"]
      [] p.st = "parts" ->
            LET r == SplitWordsNext(p.line, p.iter) IN
            IF r.panic THEN [p EXCEPT !.st = "panicked"]
            ELSE IF ~r.item.some THEN [p EXCEPT !.iter = r.st, !.st = "lines"]
            ELSE HandlePart(d, [p EXCEPT !.iter = r.st], r.item.val)
      [] OTHER -> p

RECURSIVE TokenizeLinesRun(_, _)
\* The steps of tokenize_lines up to its return or panic.  (The state after
\* a step is bound as the one element of a set, so that it is computed once
\* and not again at each of its uses.)
TokenizeLinesRun(d, p) ==
    IF p.st \in {"returned", "panicked"} THEN p
    ELSE CHOOSE r \in {TokenizeLinesRun(d, q) : q \in {TokenizeLinesStep(d, p)}} : TRUE

\* VibratoWorker::tokenize_lines, from call to return.
TokenizeLines(d, w, str) == TokenizeLinesRun(d, TokenizeLinesInit(w, str))

(***************************************************************************)
(* get_message, send_message and the arms of the match of do_stuff         *)
(***************************************************************************)
\* Value::get(key): Some only for a key of an object.
Get(v, key) ==
    IF v.t = "obj" /\ key \in DOMAIN v.v THEN Some(v.v[key]) ELSE None

\* v[key]: Null when v is no object or lacks the key.
Index(v, key) ==
    IF v.t = "obj" /\ key \in DOMAIN v.v THEN v.v[key] ELSE JNull

\* Value::as_str
AsStr(v) == IF v.t = "str" THEN Some(v.v) ELSE None

StrGetVersion == <<"g", "e", "t", "_", "v", "e", "r", "s", "i", "o", "n">>

StrParseText == <<"p", "a", "r", "s", "e", "_", "t", "e", "x", "t">>

\* `Some(req) if req == "..."`: the action is that very string.
ActionIs(m, name) ==
    Get(m, "action").some /\ Get(m, "action").val = JStr(name)

\* get_message on a stream of whole frames that ends cleanly ("none"),
\* inside a length prefix ("prefix") or inside a payload ("payload"): the
\* Result (ok), the Option in it (msg) and what is left of the stream.
GetMessage(in) ==
    IF in.frames = <<>>
    THEN IF in.tail = "none"
         THEN [ok |-> TRUE, msg |-> None, rest |-> in]
         ELSE [ok |-> FALSE, msg |-> None,
               rest |-> [frames |-> <<>>, tail |-> "none"]]
    ELSE LET f == Head(in.frames)
             rest == [in EXCEPT !.frames = Tail(@)]
         IN  IF f.kind = "json"
             THEN [ok |-> TRUE, msg |-> Some(f.value), rest |-> rest]
             ELSE [ok |-> FALSE, msg |-> None, rest |-> rest]

\* What the writer may do in one call of send_message: w.write accepts k
\* of the 4 prefix bytes (a short write is not an error) or fails, then
\* write_all or flush may fail.
SendOutcomes ==
    {[accepted |-> k, fail |-> "none"] : k \in 1..4}
    \cup {[accepted |-> 0, fail |-> "prefix"],
          [accepted |-> 4, fail |-> "payload"],
          [accepted |-> 4, fail |-> "flush"]}

\* send_message: the Result (ok) and stdout's record of the call.
SendMessage(out, v, oc) ==
    [ok |-> oc.fail = "none",
     out |-> Append(out, [msg |-> v,
                          prefix |-> oc.accepted,
                          payload |-> oc.fail \in {"none", "flush"},
                          flushed |-> oc.fail = "none"])]

\* A reply to get_version that hands back the params it was given.
VersionResponse_EchoParams(m) ==
    JObj(("sequence" :> Index(m, "sequence"))
         @@ ("data" :> (IF Get(m, "params").some
                        THEN JObj("version" :> Index(m, "params"))
                        ELSE JObj("version" :> JNum(1)))))

\* The reply to get_version.
VersionResponse(m) ==
    JObj(("sequence" :> Index(m, "sequence"))
         @@ ("data" :> JObj("version" :> JNum(1))))

\* A reply that keeps the sequence only when it is a string.
ParseResponse_SequenceAsStr(m, tokenized) ==
    JObj(("sequence" :> (IF Index(m, "sequence").t = "str"
                         THEN Index(m, "sequence") ELSE JNull))
         @@ ("data" :> tokenized))

\* The reply to parse_text.
ParseResponse(m, tokenized) ==
    JObj(("sequence" :> Index(m, "sequence")) @@ ("data" :> tokenized))

\* The arm of parse_text that forgets its send_message.
ParseTextArm_NoReply(d, w, out, m, oc) ==
    LET txt == AsStr(Index(Index(m, "params"), "text")) IN
    IF ~txt.some
    THEN [worker |-> w, out |-> out, pc |-> "panicked"]
    ELSE [worker |-> TokenizeLines(d, w, txt.val).worker, out |-> out, pc |-> "recv"]

\* An arm of parse_text that goes on with the loop when send_message fails.
ParseTextArm_IgnoreSendError(d, w, out, m, oc) ==
    LET txt == AsStr(Index(Index(m, "params"), "text")) IN
    IF ~txt.some
    THEN [worker |-> w, out |-> out, pc |-> "panicked"]
    ELSE LET done == TokenizeLines(d, w, txt.val)
             sent == SendMessage(out, ParseResponse(m, JArr(done.res)), oc)
         IN  IF done.st = "panicked"
             THEN [worker |-> done.worker, out |-> out, pc |-> "panicked"]
             ELSE [worker |-> done.worker, out |-> sent.out, pc |-> "recv"]

\* The arm of parse_text: the panic when params.text is no string, else
\* tokenize_lines and the reply; the worker and stdout afterwards, and
\* where do_stuff goes on.
ParseTextArm(d, w, out, m, oc) ==
    LET txt == AsStr(Index(Index(m, "params"), "text")) IN
    IF ~txt.some
    THEN [worker |-> w, out |-> out, pc |-> "panicked"]
    ELSE LET done == TokenizeLines(d, w, txt.val)
             sent == SendMessage(out, ParseResponse(m, JArr(done.res)), oc)
         IN  IF done.st = "panicked"
             THEN [worker |-> done.worker, out |-> out, pc |-> "panicked"]
             ELSE [worker |-> done.worker, out |-> sent.out,
                   pc |-> IF sent.ok THEN "recv" ELSE "exited"]

(***************************************************************************)
(* Bytes: usize and u32, UTF-8, JSON text                                  *)
(*                                                                         *)
(* A byte is a number in 0..255.  A usize is the sequence of its eight     *)
(* base-256 digits and a u32 that of its four, lowest digit first, so that *)
(* a length of 2^32 or more can be written down.                           *)
(***************************************************************************)
\* A (small) number as a usize.
Usize(n) ==
    <<n % 256, (n \div 256) % 256, (n \div 65536) % 256,
      (n \div 16777216) % 256, 0, 0, 0, 0>>

\* `x as u32` of a usize x: the low 32 bits.
AsU32(x) == SubSeq(x, 1, 4)

\* `x as usize` of a u32 x.
AsUsize(x) == x \o <<0, 0, 0, 0>>

Reverse(seq) == [i \in 1..Len(seq) |-> seq[Len(seq) + 1 - i]]

\* u32::to_ne_bytes and u32::from_ne_bytes on a target of byte order e.
ToNeBytes(e, x) == IF e = "little" THEN x ELSE Reverse(x)

FromNeBytes(e, bytes) == IF e = "little" THEN bytes ELSE Reverse(bytes)

\* Whether the usize x is at most the (small) number k, and x as a number
\* when it is.
UsizeAtMost(x, k) ==
    /\ \A i \in 3..8 : x[i] = 0
    /\ x[1] + 256 * x[2] <= k

UsizeNat(x) == x[1] + 256 * x[2]

\* The chars of the model and their UTF-8 encodings.
CharTable ==
    {<<" ", <<32>>>>, <<"1", <<49>>>>, <<",", <<44>>>>, <<"[", <<91>>>>,
     <<"]", <<93>>>>, <<"a", <<97>>>>, <<"b", <<98>>>>, <<"c", <<99>>>>,
     <<"k", <<107>>>>,
     <<"U00E9", <<195, 169>>>>, <<"U3042", <<227, 129, 130>>>>,
     <<"U3000", <<227, 128, 128>>>>}

\* char::encode_utf8
EncodeUtf8(c) == (CHOOSE p \in CharTable : p[1] = c)[2]

\* The char a well-formed UTF-8 sequence stands for.
DecodeUtf8(bytes) == (CHOOSE p \in CharTable : p[2] = bytes)[1]

IsContinuation(bytes, i) == i <= Len(bytes) /\ bytes[i] \in 128..191

\* The length of the well-formed UTF-8 sequence that starts at bytes[i],
\* or 0 when none does (core::str::from_utf8's validation).
Utf8Width(bytes, i) ==
    LET b == bytes[i] IN
    CASE b < 128 -> 1
      [] b \in 194..223 -> IF IsContinuation(bytes, i + 1) THEN 2 ELSE 0
      [] b = 224 ->
            IF i + 1 <= Len(bytes) /\ bytes[i + 1] \in 160..191
               /\ IsContinuation(bytes, i + 2) THEN 3 ELSE 0
      [] b \in (225..236) \cup {238, 239} ->
            IF IsContinuation(bytes, i + 1) /\ IsContinuation(bytes, i + 2)
            THEN 3 ELSE 0
      [] b = 237 ->
            IF i + 1 <= Len(bytes) /\ bytes[i + 1] \in 128..159
               /\ IsContinuation(bytes, i + 2) THEN 3 ELSE 0
      [] b = 240 ->
            IF i + 1 <= Len(bytes) /\ bytes[i + 1] \in 144..191
               /\ IsContinuation(bytes, i + 2) /\ IsContinuation(bytes, i + 3)
            THEN 4 ELSE 0
      [] b \in 241..243 ->
            IF IsContinuation(bytes, i + 1) /\ IsContinuation(bytes, i + 2)
               /\ IsContinuation(bytes, i + 3) THEN 4 ELSE 0
      [] b = 244 ->
            IF i + 1 <= Len(bytes) /\ bytes[i + 1] \in 128..143
               /\ IsContinuation(bytes, i + 2) /\ IsContinuation(bytes, i + 3)
            THEN 4 ELSE 0
      [] OTHER -> 0

RECURSIVE ValidUtf8From(_, _)
ValidUtf8From(bytes, i) ==
    IF i > Len(bytes) THEN TRUE
    ELSE LET n == Utf8Width(bytes, i) IN
         n > 0 /\ ValidUtf8From(bytes, i + n)

\* Whether String::from_utf8(bytes) is Ok.
FromUtf8Ok(bytes) == ValidUtf8From(bytes, 1)

(***************************************************************************)
(* serde_json: Value::from_str and Value::to_string, for JSON text without *)
(* escapes, signs, fractions and exponents.                                *)
(***************************************************************************)
ParseFail == [ok |-> FALSE, val |-> JNull, next |-> 0]

ParseOk(v, i) == [ok |-> TRUE, val |-> v, next |-> i]

RECURSIVE SkipWs(_, _)
\* The first index from i on that holds no JSON whitespace.
SkipWs(bytes, i) ==
    IF i <= Len(bytes) /\ bytes[i] \in {32, 9, 10, 13}
    THEN SkipWs(bytes, i + 1) ELSE i

\* Whether word stands at bytes[i].
Literal(bytes, i, word) ==
    i + Len(word) - 1 <= Len(bytes) /\ SubSeq(bytes, i, i + Len(word) - 1) = word

RECURSIVE ParseStringBody(_, _, _)
\* A string from behind its opening quote to its closing quote.
ParseStringBody(bytes, i, acc) ==
    IF i > Len(bytes) THEN ParseFail
    ELSE IF bytes[i] = 34 THEN ParseOk(JStr(acc), i + 1)
    ELSE IF bytes[i] < 32 \/ bytes[i] = 92 THEN ParseFail
    ELSE LET n == Utf8Width(bytes, i) IN
         ParseStringBody(bytes, i + n,
                         Append(acc, DecodeUtf8(SubSeq(bytes, i, i + n - 1))))

RECURSIVE ParseDigits(_, _, _)
ParseDigits(bytes, i, acc) ==
    IF i <= Len(bytes) /\ bytes[i] \in 48..57
    THEN ParseDigits(bytes, i + 1, 10 * acc + (bytes[i] - 48))
    ELSE ParseOk(JNum(acc), i)

\* A number: a lone 0, or digits that do not start with 0.
ParseNumber(bytes, i) ==
    IF bytes[i] = 48
    THEN IF i + 1 <= Len(bytes) /\ bytes[i + 1] \in 48..57
         THEN ParseFail ELSE ParseOk(JNum(0), i + 1)
    ELSE ParseDigits(bytes, i, 0)

RECURSIVE KeyName(_)
\* The key of an object member as the model names keys.
KeyName(chars) == IF chars = <<>> THEN "" ELSE Head(chars) \o KeyName(Tail(chars))

EmptyObject == JObj([key \in {} |-> JNull])

RECURSIVE ParseValue(_, _), ParseElements(_, _, _), ParseMembers(_, _, _)
ParseValue(bytes, from) ==
    LET i == SkipWs(bytes, from) IN
    IF i > Len(bytes) THEN ParseFail
    ELSE CASE bytes[i] = 34 -> ParseStringBody(bytes, i + 1, <<>>)
           [] bytes[i] \in 48..57 -> ParseNumber(bytes, i)
           [] bytes[i] = 110 ->
                 IF Literal(bytes, i, <<110, 117, 108, 108>>)
                 THEN ParseOk(JNull, i + 4) ELSE ParseFail
           [] bytes[i] = 116 ->
                 IF Literal(bytes, i, <<116, 114, 117, 101>>)
                 THEN ParseOk(JBool(TRUE), i + 4) ELSE ParseFail
           [] bytes[i] = 102 ->
                 IF Literal(bytes, i, <<102, 97, 108, 115, 101>>)
                 THEN ParseOk(JBool(FALSE), i + 5) ELSE ParseFail
           [] bytes[i] = 91 ->
                 LET j == SkipWs(bytes, i + 1) IN
                 IF j <= Len(bytes) /\ bytes[j] = 93
                 THEN ParseOk(JArr(<<>>), j + 1)
                 ELSE ParseElements(bytes, i + 1, <<>>)
           [] bytes[i] = 123 ->
                 LET j == SkipWs(bytes, i + 1) IN
                 IF j <= Len(bytes) /\ bytes[j] = 125
                 THEN ParseOk(EmptyObject, j + 1)
                 ELSE ParseMembers(bytes, i + 1, EmptyObject.v)
           [] OTHER -> ParseFail

\* The elements of an array from behind "[" or "," to the closing "]".
ParseElements(bytes, i, acc) ==
    LET v == CHOOSE r \in {ParseValue(bytes, i)} : TRUE IN
    IF ~v.ok THEN ParseFail
    ELSE LET j == SkipWs(bytes, v.next) IN
         IF j > Len(bytes) THEN ParseFail
         ELSE IF bytes[j] = 44 THEN ParseElements(bytes, j + 1, Append(acc, v.val))
         ELSE IF bytes[j] = 93 THEN ParseOk(JArr(Append(acc, v.val)), j + 1)
         ELSE ParseFail

\* The members of an object from behind "{" or "," to the closing "}"; a
\* key met again replaces its earlier value.
ParseMembers(bytes, i, acc) ==
    LET j == SkipWs(bytes, i) IN
    IF j > Len(bytes) \/ bytes[j] # 34 THEN ParseFail
    ELSE LET key == CHOOSE r \in {ParseStringBody(bytes, j + 1, <<>>)} : TRUE IN
         IF ~key.ok THEN ParseFail
         ELSE LET c == SkipWs(bytes, key.next) IN
              IF c > Len(bytes) \/ bytes[c] # 58 THEN ParseFail
              ELSE LET v == CHOOSE r \in {ParseValue(bytes, c + 1)} : TRUE IN
                   IF ~v.ok THEN ParseFail
                   ELSE LET d == SkipWs(bytes, v.next)
                            now == (KeyName(key.val.v) :> v.val) @@ acc
                        IN  IF d > Len(bytes) THEN ParseFail
                            ELSE IF bytes[d] = 44 THEN ParseMembers(bytes, d + 1, now)
                            ELSE IF bytes[d] = 125 THEN ParseOk(JObj(now), d + 1)
                            ELSE ParseFail

\* Value::from_str: one value, whitespace around it, and nothing else.
FromStr(bytes) ==
    LET v == CHOOSE r \in {ParseValue(bytes, 1)} : TRUE IN
    IF v.ok /\ SkipWs(bytes, v.next) = Len(bytes) + 1
    THEN [ok |-> TRUE, val |-> v.val]
    ELSE [ok |-> FALSE, val |-> JNull]

RECURSIVE DecimalDigits(_)
DecimalDigits(n) ==
    IF n < 10 THEN <<48 + n>> ELSE DecimalDigits(n \div 10) \o <<48 + (n % 10)>>

\* The bytes of a str.
StrBytes(str) == Concat([i \in 1..Len(str) |-> EncodeUtf8(str[i])])

\* The chars of a key of the model's objects.
KeyChars(key) ==
    CASE key = "a" -> <<"a">>
      [] key = "k" -> <<"k">>
      [] key = "ab" -> <<"a", "b">>

RECURSIVE ValueToString(_)
\* Value::to_string (Display of Value), the compact form; of an object
\* with at most one key, so that the order of the keys plays no part.
ValueToString(v) ==
    CASE v.t = "null" -> <<110, 117, 108, 108>>
      [] v.t = "bool" ->
            IF v.v THEN <<116, 114, 117, 101>> ELSE <<102, 97, 108, 115, 101>>
      [] v.t = "num" -> DecimalDigits(v.v)
      [] v.t = "str" -> <<34>> \o StrBytes(v.v) \o <<34>>
      [] v.t = "arr" ->
            <<91>> \o Concat([i \in 1..Len(v.v) |->
                                 IF i = 1 THEN ValueToString(v.v[i])
                                 ELSE <<44>> \o ValueToString(v.v[i])])
                   \o <<93>>
      [] v.t = "obj" ->
            <<123>> \o Concat([i \in 1..Cardinality(DOMAIN v.v) |->
                                  LET key == CHOOSE k \in DOMAIN v.v : TRUE IN
                                  <<34>> \o StrBytes(KeyChars(key)) \o <<34, 58>>
                                         \o ValueToString(v.v[key])])
                    \o <<125>>

(***************************************************************************)
(* read_u32, get_message and send_message on a byte stream                 *)
(***************************************************************************)
\* A read_exact that, asked for more than four bytes or fewer, is content
\* with the bytes that are left.
ReadExact_Short(w, pos, n) ==
    IF UsizeAtMost(n, Len(w) - pos)
    THEN [ok |-> TRUE, data |-> SubSeq(w, pos + 1, pos + UsizeNat(n)),
          pos |-> pos + UsizeNat(n)]
    ELSE [ok |-> n # Usize(4), data |-> SubSeq(w, pos + 1, Len(w)), pos |-> Len(w)]

\* Read::read_exact of n bytes from position pos of the stream w: the
\* bytes, or the error of a stream that ends first (what was left is
\* consumed).
ReadExact(w, pos, n) ==
    IF UsizeAtMost(n, Len(w) - pos)
    THEN [ok |-> TRUE, data |-> SubSeq(w, pos + 1, pos + UsizeNat(n)),
          pos |-> pos + UsizeNat(n)]
    ELSE [ok |-> FALSE, data |-> <<>>, pos |-> Len(w)]

\* read_u32
ReadU32(e, w, pos) ==
    LET buf == ReadExact(w, pos, Usize(4)) IN
    [ok |-> buf.ok, val |-> IF buf.ok THEN FromNeBytes(e, buf.data) ELSE <<>>,
     pos |-> buf.pos]

\* get_message on the stream w read up to pos: Ok(None), Ok(Some(val)) or
\* an Err, and how far the stream is read afterwards.
GetMessageAt(e, w, pos) ==
    IF pos = Len(w)
    THEN [res |-> "none", err |-> "", val |-> JNull, pos |-> pos]
    ELSE LET len == ReadU32(e, w, pos) IN
         IF ~len.ok
         THEN [res |-> "err", err |-> "eof", val |-> JNull, pos |-> len.pos]
         ELSE LET buf == ReadExact(w, len.pos, AsUsize(len.val)) IN
              IF ~buf.ok
              THEN [res |-> "err", err |-> "eof", val |-> JNull, pos |-> buf.pos]
              ELSE IF ~FromUtf8Ok(buf.data)
              THEN [res |-> "err", err |-> "utf8", val |-> JNull, pos |-> buf.pos]
              ELSE LET parsed == FromStr(buf.data) IN
                   IF ~parsed.ok
                   THEN [res |-> "err", err |-> "json", val |-> JNull, pos |-> buf.pos]
                   ELSE [res |-> "some", err |-> "", val |-> parsed.val,
                         pos |-> buf.pos]

\* `(s.len() as u32).to_ne_bytes()`
LengthPrefix(e, len) == ToNeBytes(e, AsU32(len))

\* What the writer does with one send_message: how many of the four bytes
\* of the prefix its `write` accepts (Ok(n), which send_message drops), and
\* which call fails if one does: the write (nothing written), write_all
\* (after nothing or after all but the last byte) or flush.
WriterOutcomes ==
    {[accepted |-> k, fail |-> "none", part |-> "all"] : k \in 0..4}
    \cup {[accepted |-> 0, fail |-> "prefix", part |-> "nothing"],
          [accepted |-> 4, fail |-> "payload", part |-> "nothing"],
          [accepted |-> 4, fail |-> "payload", part |-> "most"],
          [accepted |-> 4, fail |-> "flush", part |-> "all"]}

\* send_message of v to the stream w: whether it returns Ok, and the
\* stream afterwards.
SendMessageOn(e, w, v, oc) ==
    LET str == ValueToString(v)
        pre == LengthPrefix(e, Usize(Len(str)))
        w1 == w \o SubSeq(pre, 1, oc.accepted)
    IN  IF oc.fail = "prefix" THEN [ok |-> FALSE, wire |-> w]
        ELSE IF oc.fail = "payload"
        THEN [ok |-> FALSE,
              wire |-> IF oc.part = "most"
                       THEN w1 \o SubSeq(str, 1, Len(str) - 1) ELSE w1]
        ELSE [ok |-> oc.fail = "none", wire |-> w1 \o str]

(***************************************************************************)
(* Specification SegSpec: split_words driven over every short line.        *)
(***************************************************************************)
SegChars == {"a", " ", "U3042", "U3000"}

RECURSIVE StrsUpTo(_, _)
\* Every str of at most n chars over the alphabet.
StrsUpTo(alphabet, n) ==
    IF n = 0 THEN {<<>>}
    ELSE LET shorter == StrsUpTo(alphabet, n - 1) IN
         shorter \cup {Append(x, c) : x \in shorter, c \in alphabet}

\* The variables of the loop body of tokenize while it is not running.
MapIdle == tk = None /\ value = None

WorkerIdle == dict = "none" /\ worker = NewWorker

PipeIdle ==
    text = <<>> /\ lineNo = 0 /\ res = <<>> /\ groups = <<>> /\ pipeState = "idle"

SessIdle ==
    /\ sin = [frames |-> <<>>, tail |-> "none"]
    /\ sout = <<>> /\ msg = None /\ received = <<>> /\ pc = "idle"

FrameIdle ==
    /\ endian = "little" /\ wire = <<>> /\ rpos = 0 /\ gets = <<>> /\ puts = <<>>
    /\ payloadLen = <<>> /\ prefix = <<>>

SegInit ==
    /\ s \in StrsUpTo(SegChars, MaxLineLen)
    /\ iter = SplitWordsInit
    /\ runs = <<>>
    /\ segState = "iterating"
    /\ MapIdle /\ WorkerIdle /\ PipeIdle /\ SessIdle /\ FrameIdle

\* The consumer asks the iterator for its next item: a run, None (the
\* iteration is over), or the panic of the slice inside the closure.
SegStep ==
    /\ segState = "iterating"
    /\ LET r == SplitWordsNext(s, iter) IN
        /\ iter' = r.st
        /\ runs' = IF r.item.some THEN Append(runs, r.item.val) ELSE runs
        /\ segState' = IF r.panic THEN "panicked"
                       ELSE IF r.item.some THEN "iterating" ELSE "finished"
        /\ UNCHANGED <<s, mapVars, workerVars, pipeVars, sessVars, frameVars>>

SegNext == SegStep

SegSpec == SegInit /\ [][SegNext]_vars

(***************************************************************************)
(* split_words: the claims                                                 *)
(***************************************************************************)
IsPrefix(p, str) == Len(p) <= Len(str) /\ SubSeq(str, 1, Len(p)) = p

\* C4: the runs split_words emits, concatenated in emission order, are at
\* every moment a prefix of the line and, once the iterator has returned
\* None, the line itself; the slice never panics and there are at most as
\* many runs as the line has chars (the sequence is finite).
C4_ConcatReproducesLine ==
    /\ segState # "panicked"
    /\ IsPrefix(Concat(runs), s)
    /\ Len(runs) <= Len(s)
    /\ segState = "finished" => Concat(runs) = s

\* A line with a multi-byte char ahead of other chars, split into three or
\* more runs and exhausted.
C4_Witness ==
    /\ segState = "finished"
    /\ Len(runs) >= 3
    /\ \E i \in 1..Len(s) - 1 : LenUtf8(s[i]) > 1

\* C5: every run split_words emits is non-empty, its chars are all
\* whitespace or all non-whitespace, and two adjacent runs differ in that:
\* a run is a maximal substring of one category.
C5_RunsMaximalSameCategory ==
    /\ \A k \in 1..Len(runs) :
          /\ runs[k] # <<>>
          /\ \A i, j \in 1..Len(runs[k]) :
                IsWhitespace(runs[k][i]) = IsWhitespace(runs[k][j])
    /\ \A k \in 1..Len(runs) - 1 :
          IsWhitespace(runs[k][1]) # IsWhitespace(runs[k + 1][1])

\* A finished segmentation with a run of two or more chars next to a run of
\* the other category.
C5_Witness ==
    /\ segState = "finished"
    /\ Len(runs) >= 2
    /\ \E k \in 1..Len(runs) : Len(runs[k]) >= 2

(***************************************************************************)
(* Specification MapSpec: the loop body of tokenize applied to one token,  *)
(* for a family of raw feature strings of up to MaxRepeat + MaxTail + 1    *)
(* sub-fields.                                                             *)
(***************************************************************************)
FeatChars == {"a", "*", ",", "-"}

RECURSIVE Repeat(_, _)
Repeat(unit, k) == IF k = 0 THEN <<>> ELSE unit \o Repeat(unit, k - 1)

Features ==
    {Repeat(unit, k) \o tail :
        unit \in {<<"*", ",">>, <<"a", "-">>},
        k \in 0..MaxRepeat,
        tail \in StrsUpTo(FeatChars, MaxTail)}

SegIdle ==
    s = <<>> /\ iter = SplitWordsInit /\ runs = <<>> /\ segState = "idle"

MapInit ==
    /\ tk \in {Some([surface |-> <<"U3042", "a">>, feature |-> f]) : f \in Features}
    /\ value = None
    /\ SegIdle /\ WorkerIdle /\ PipeIdle /\ SessIdle /\ FrameIdle

\* One pass of the body of `for tk in tokens`.
MapToken ==
    /\ tk.some
    /\ ~value.some
    /\ value' = Some(TokenValue(tk.val))
    /\ UNCHANGED <<tk, segVars, workerVars, pipeVars, sessVars, frameVars>>

MapNext == MapToken

MapSpec == MapInit /\ [][MapNext]_vars

(***************************************************************************)
(* The feature mapping: the claim                                          *)
(***************************************************************************)
\* The positions of the separators of a raw feature string, with the
\* position before its first char and the one after its last.
Cuts(feature) ==
    {i \in 1..Len(feature) : feature[i] \in {",", "-"}} \cup {0, Len(feature) + 1}

\* The k-th smallest element of a set of numbers.
Kth(S, k) == CHOOSE x \in S : Cardinality({y \in S : y < x}) = k - 1

NumSubFields(feature) == Cardinality(Cuts(feature)) - 1

\* The i-th sub-field: the chars between the (i-1)-th and the i-th separator.
SubField(feature, i) ==
    SubSeq(feature, Kth(Cuts(feature), i) + 1, Kth(Cuts(feature), i + 1) - 1)

\* C8: for a raw feature string of n sub-fields (the pieces between its
\* commas and dashes, in order), the value pushed for the token holds, after
\* the source pair, exactly min(12, n) pairs; the i-th pairs the i-th name of
\* DATA with the i-th sub-field, or with null exactly when that sub-field is
\* "*"; sub-fields past the 12th are dropped and names past the n-th do not
\* occur at all.
C8_FeatureMapping ==
    value.some =>
        LET f == tk.val.feature
            n == NumSubFields(f)
            m == Min(Len(DATA), n)
            pairs == value.val.v
        IN  /\ value.val.t = "arr"
            /\ Len(pairs) = m + 1
            /\ \A i \in 1..m :
                  /\ pairs[i + 1].v[1] = JStr(DATA[i])
                  /\ pairs[i + 1].v[2] =
                        (IF SubField(f, i) = <<"*">> THEN JNull
                         ELSE JStr(SubField(f, i)))
                  /\ (pairs[i + 1].v[2] = JNull) <=> (SubField(f, i) = <<"*">>)
            /\ \A j \in m + 1..Len(DATA) :
                  \A i \in 1..Len(pairs) : pairs[i].v[1] # JStr(DATA[j])

\* A mapped token of more than 12 sub-fields, one of the first 12 a
\* wildcard, one the empty string and one cut off by a dash.
C8_Witness ==
    /\ value.some
    /\ NumSubFields(tk.val.feature) > Len(DATA)
    /\ \E i \in 1..Len(DATA) : SubField(tk.val.feature, i) = <<"*">>
    /\ \E i \in 1..Len(DATA) : SubField(tk.val.feature, i) = <<>>
    /\ \E i \in 1..Len(tk.val.feature) : tk.val.feature[i] = "-"

\* A mapped token of fewer than 12 sub-fields.
C8_WitnessShort ==
    /\ value.some
    /\ NumSubFields(tk.val.feature) < Len(DATA)

(***************************************************************************)
(* Specification PipeSpec: tokenize_lines, one loop step at a time, over   *)
(* every short text and each dictionary of the model.                      *)
(***************************************************************************)
TextChars == {"a", " ", "U3042", "U3000", "\n", "\r"}

PipeInit ==
    /\ dict \in Dicts
    /\ worker = NewWorker
    /\ text \in StrsUpTo(TextChars, MaxTextLen)
    /\ lineNo = 0
    /\ s = <<>>
    /\ iter = SplitWordsInit
    /\ res = <<>>
    /\ groups = <<>>
    /\ pipeState = "lines"
    /\ runs = <<>> /\ segState = "idle"
    /\ MapIdle /\ SessIdle /\ FrameIdle

\* The state of tokenize_lines as the record its step works on.
PipeRecord ==
    [text |-> text, lineNo |-> lineNo, line |-> s, iter |-> iter, res |-> res,
     worker |-> worker, groups |-> groups, st |-> pipeState]

PipeSet(q) ==
    /\ lineNo' = q.lineNo
    /\ s' = q.line
    /\ iter' = q.iter
    /\ res' = q.res
    /\ worker' = q.worker
    /\ groups' = q.groups
    /\ pipeState' = q.st
    /\ UNCHANGED <<text, dict, runs, segState, mapVars, sessVars, frameVars>>

\* `for line in s.lines()`: the next line, or the return of Ok(res).
PipeNextLine ==
    /\ pipeState = "lines"
    /\ PipeSet(TokenizeLinesStep(dict, PipeRecord))

\* `for part in split_words(line)`: the next part and its handling, or the
\* end of the line.
PipeNextPart ==
    /\ pipeState = "parts"
    /\ PipeSet(TokenizeLinesStep(dict, PipeRecord))

PipeNext == PipeNextLine \/ PipeNextPart

PipeSpec == PipeInit /\ [][PipeNext]_vars

(***************************************************************************)
(* tokenize_lines: the claims                                              *)
(***************************************************************************)
AllWhitespace(str) == \A i \in 1..Len(str) : IsWhitespace(str[i])

\* What the parts handled so far added to res, one after the other.
GroupRecs == Concat([k \in 1..Len(groups) |-> groups[k].recs])

\* The values pushed for the tokens the Analyzer emits for a part.
TokenValuesOf(part) ==
    [i \in 1..Len(Analyze(dict, part)) |-> TokenValue(Analyze(dict, part)[i])]

\* C6 as claimed: a part that is not all whitespace adds to res exactly one
\* record per token the Analyzer emitted for it, in emission order, and
\* nothing else (n records for n tokens).
C6_OneRecordPerToken ==
    \A k \in 1..Len(groups) :
        ~AllWhitespace(groups[k].part) =>
            /\ Len(groups[k].recs) = Len(Analyze(dict, groups[k].part))
            /\ groups[k].recs = TokenValuesOf(groups[k].part)

\* C6 as amended: a part that is not all whitespace adds to res the object
\* {"source": part} followed by one value per token the Analyzer emitted
\* for it, in emission order, and nothing else (n + 1 values for n tokens,
\* one when n = 0); res is these additions in the order they were made.
C6_HeaderThenOneRecordPerToken ==
    /\ res = GroupRecs
    /\ \A k \in 1..Len(groups) :
          ~AllWhitespace(groups[k].part) =>
              /\ Len(groups[k].recs) = Len(Analyze(dict, groups[k].part)) + 1
              /\ groups[k].recs =
                    <<JObj("source" :> JStr(groups[k].part))>>
                    \o TokenValuesOf(groups[k].part)

\* tokenize_lines has returned after a word part for which the Analyzer
\* emitted two tokens or more.
C6_Witness ==
    /\ pipeState = "returned"
    /\ \E k \in 1..Len(groups) :
          /\ ~AllWhitespace(groups[k].part)
          /\ Len(Analyze(dict, groups[k].part)) >= 2

\* The Analyzer calls made before the k-th part was handled.
CallsBefore(k) == IF k = 1 THEN 0 ELSE groups[k - 1].calls

WordPart(part) == ~AllWhitespace(part)

\* C7: a part made of whitespace only adds exactly one record to res, an
\* object whose source is the part's text and whose other keys (the three
\* provider names) are all null, and the Analyzer is not called for it; the
\* Analyzer is called exactly for the other parts, in their order.
C7_WhitespaceRunDummy ==
    /\ \A k \in 1..Len(groups) :
          AllWhitespace(groups[k].part) =>
              /\ Len(groups[k].recs) = 1
              /\ groups[k].recs[1].t = "obj"
              /\ DOMAIN groups[k].recs[1].v =
                    {"source", "ipadic", "ipadic-neologd", "unidic-mecab-translate"}
              /\ groups[k].recs[1].v["source"] = JStr(groups[k].part)
              /\ \A key \in DOMAIN groups[k].recs[1].v \ {"source"} :
                    groups[k].recs[1].v[key] = JNull
              /\ groups[k].calls = CallsBefore(k)
    /\ worker.calls =
          SelectSeq([k \in 1..Len(groups) |-> groups[k].part], WordPart)

\* tokenize_lines has returned after a whitespace part of two chars, one of
\* them not ASCII, that followed a part the Analyzer was called for.
C7_Witness ==
    /\ pipeState = "returned"
    /\ \E k \in 2..Len(groups) :
          /\ AllWhitespace(groups[k].part)
          /\ Len(groups[k].part) >= 2
          /\ \E i \in 1..Len(groups[k].part) : groups[k].part[i] = "U3000"
          /\ groups[k].calls >= 1

\* An object with a key "source" that holds a string.
ObjectWithSource(e) ==
    /\ e.t = "obj"
    /\ "source" \in DOMAIN e.v
    /\ e.v["source"].t = "str"

\* An array of [name, value] pairs, the first of them ["source", string],
\* the others a name of DATA with a string or null.
PairListWithSource(e) ==
    /\ e.t = "arr"
    /\ Len(e.v) >= 1
    /\ \A j \in 1..Len(e.v) :
          /\ e.v[j].t = "arr"
          /\ Len(e.v[j].v) = 2
          /\ e.v[j].v[1].t = "str"
    /\ e.v[1].v[1] = JStr(<<"s", "o", "u", "r", "c", "e">>)
    /\ e.v[1].v[2].t = "str"
    /\ \A j \in 2..Len(e.v) :
          /\ \E i \in 1..Len(DATA) : e.v[j].v[1] = JStr(DATA[i])
          /\ e.v[j].v[2].t \in {"str", "null"}

\* C9 as claimed: every element of the record array is an object that has
\* a key "source" holding a string.
C9_EveryElementObjectWithSource ==
    \A i \in 1..Len(res) : ObjectWithSource(res[i])

\* C9 as amended: every element of the record array is either an object
\* that has a key "source" holding a string (the {"source": part} object
\* ahead of a part's tokens, or a dummy record with its null provider keys)
\* or, for a token, an array of [name, value] pairs whose first pair is
\* ["source", surface] and whose other pairs give a name of DATA a string
\* or null; no element is of any other shape.
C9_ObjectOrPairList ==
    \A i \in 1..Len(res) :
        ObjectWithSource(res[i]) \/ PairListWithSource(res[i])

\* tokenize_lines has returned an array that holds a dummy record and the
\* value of a token.
C9_Witness ==
    /\ pipeState = "returned"
    /\ \E i, j \in 1..Len(res) :
          /\ res[i].t = "obj" /\ "ipadic" \in DOMAIN res[i].v
          /\ res[j].t = "arr"

\* The parts handled for line j, in the order they were handled.
PartsOfLine(j) ==
    LET ofLine(g) == g.line = j
        gs == SelectSeq(groups, ofLine)
    IN  [k \in 1..Len(gs) |-> gs[k].part]

\* The lines tokenize_lines is through with.
LinesDone == IF pipeState = "parts" THEN lineNo - 1 ELSE lineNo

\* C10: res is the concatenation, in the order handled, of what each part
\* added; the parts are handled line by line, top to bottom (the line
\* numbers never decrease), the parts of a finished line concatenate to
\* that line of the text and those of the line in progress to a prefix of
\* it, so no group is reordered, dropped or repeated; at the return every
\* line of the text has been handled.
C10_InOrderConcatenation ==
    /\ res = GroupRecs
    /\ \A k \in 1..Len(groups) - 1 : groups[k].line <= groups[k + 1].line
    /\ \A k \in 1..Len(groups) : groups[k].line \in 1..lineNo
    /\ lineNo <= Len(Lines(text))
    /\ \A j \in 1..LinesDone : Concat(PartsOfLine(j)) = Lines(text)[j]
    /\ pipeState = "parts" =>
          LET done == Concat(PartsOfLine(lineNo)) IN
          /\ Len(done) <= Len(Lines(text)[lineNo])
          /\ done = SubSeq(Lines(text)[lineNo], 1, Len(done))
    /\ pipeState = "returned" => lineNo = Len(Lines(text))
    /\ pipeState # "panicked"

\* tokenize_lines has returned from a text of two lines or more with parts
\* on two of them, three parts or more in all.
C10_Witness ==
    /\ pipeState = "returned"
    /\ Len(groups) >= 3
    /\ \E k \in 1..Len(groups) - 1 : groups[k].line < groups[k + 1].line

(***************************************************************************)
(* Specification SessionSpec: the loop of do_stuff over every short input  *)
(* stream.  The loop runs whenever it can (weak fairness): nothing but the *)
(* blocking read, which the stream's end releases, holds it up.            *)
(***************************************************************************)
SeqAbc == JStr(<<"a", "b", "c">>)

SeqObj == JObj("k" :> JBool(TRUE))

TextOf(str) == JObj("text" :> JStr(str))

Requests ==
    { JObj(("action" :> JStr(StrGetVersion)) @@ ("sequence" :> SeqAbc)),
      JObj(("action" :> JStr(StrGetVersion)) @@ ("sequence" :> JNum(7))
           @@ ("params" :> JNum(5))),
      JObj(("action" :> JStr(StrParseText)) @@ ("sequence" :> JNull)
           @@ ("params" :> TextOf(<<"a", " ", "a">>))),
      JObj(("action" :> JStr(StrParseText)) @@ ("sequence" :> SeqObj)
           @@ ("params" :> TextOf(<<"U3042", "\r", "\n", "U3000", "a">>))),
      JObj(("action" :> JStr(StrParseText)) @@ ("sequence" :> JNum(7))
           @@ ("params" :> JObj("text" :> JNum(5)))),
      JObj(("action" :> JStr(<<"q", "u", "i", "t">>)) @@ ("sequence" :> SeqAbc)),
      JObj("sequence" :> SeqAbc) }

Frames ==
    {[kind |-> "json", value |-> r] : r \in Requests}
    \cup {[kind |-> "notutf8", value |-> JNull], [kind |-> "notjson", value |-> JNull]}

RECURSIVE SeqsUpTo(_, _)
SeqsUpTo(S, n) ==
    IF n = 0 THEN {<<>>}
    ELSE LET shorter == SeqsUpTo(S, n - 1) IN
         shorter \cup {Append(x, e) : x \in shorter, e \in S}

SessInit ==
    /\ dict \in Dicts
    /\ worker = NewWorker
    /\ sin \in [frames : SeqsUpTo(Frames, MaxFrames),
                 tail : {"none", "prefix", "payload"}]
    /\ sout = <<>>
    /\ msg = None
    /\ received = <<>>
    /\ pc = "recv"
    /\ SegIdle /\ MapIdle /\ PipeIdle /\ FrameIdle

\* `get_message(&mut sin)?`: an Err ends do_stuff, and main logs it.
Receive ==
    /\ pc = "recv"
    /\ LET r == GetMessage(sin) IN
        /\ sin' = r.rest
        /\ msg' = r.msg
        /\ received' = IF r.msg.some THEN Append(received, r.msg.val) ELSE received
        /\ pc' = IF r.ok THEN "match" ELSE "exited"
    /\ UNCHANGED <<sout, workerVars, segVars, mapVars, pipeVars, frameVars>>

\* `if let Some(msg) = ...` does not match: the loop goes round.
NoMessage ==
    /\ pc = "match"
    /\ ~msg.some
    /\ pc' = "recv"
    /\ UNCHANGED <<sin, sout, msg, received, workerVars, segVars, mapVars, pipeVars, frameVars>>

\* The arm of get_version.
GetVersion ==
    /\ pc = "match"
    /\ msg.some
    /\ ActionIs(msg.val, StrGetVersion)
    /\ \E oc \in SendOutcomes :
          LET sent == SendMessage(sout, VersionResponse(msg.val), oc) IN
          /\ sout' = sent.out
          /\ pc' = IF sent.ok THEN "recv" ELSE "exited"
    /\ UNCHANGED <<sin, msg, received, workerVars, segVars, mapVars, pipeVars, frameVars>>

\* The arm of parse_text.
ParseText ==
    /\ pc = "match"
    /\ msg.some
    /\ ~ActionIs(msg.val, StrGetVersion)
    /\ ActionIs(msg.val, StrParseText)
    /\ \E oc \in SendOutcomes :
          LET arm == ParseTextArm(dict, worker, sout, msg.val, oc) IN
          /\ worker' = arm.worker
          /\ sout' = arm.out
          /\ pc' = arm.pc
    /\ UNCHANGED <<sin, msg, received, dict, segVars, mapVars, pipeVars, frameVars>>

\* An arm `_` that drops the request and lets the loop go round.
UnknownRequest_Skip ==
    /\ pc = "match"
    /\ msg.some
    /\ ~ActionIs(msg.val, StrGetVersion)
    /\ ~ActionIs(msg.val, StrParseText)
    /\ pc' = "recv"
    /\ UNCHANGED <<sin, sout, msg, received, workerVars, segVars, mapVars, pipeVars, frameVars>>

\* The arm `_`: unreachable!() panics.
UnknownRequest ==
    /\ pc = "match"
    /\ msg.some
    /\ ~ActionIs(msg.val, StrGetVersion)
    /\ ~ActionIs(msg.val, StrParseText)
    /\ pc' = "panicked"
    /\ UNCHANGED <<sin, sout, msg, received, workerVars, segVars, mapVars, pipeVars, frameVars>>

SessNext == Receive \/ NoMessage \/ GetVersion \/ ParseText \/ UnknownRequest

\* The loop of do_stuff with the weak fairness of a running process: a call
\* of get_message returns and the match on what it returned is taken.  (No
\* fairness is asked of ParseText: how long the Analyzer takes plays no part
\* in what is claimed of the loop, and a behaviour fair to the other steps in
\* which ParseText is never enabled from some point on is fair to it too.)
SessionSpec ==
    /\ SessInit /\ [][SessNext]_vars
    /\ WF_vars(Receive) /\ WF_vars(NoMessage) /\ WF_vars(GetVersion)
    /\ WF_vars(UnknownRequest)

(***************************************************************************)
(* do_stuff: the claims                                                    *)
(***************************************************************************)
\* C1 as claimed: once get_message has reported the end of the stream
\* (Ok(None)), the loop eventually reaches the terminal state Closed: it
\* calls get_message no more and the process has ended without an error.
C1_EndOfStreamLeadsToClosed ==
    (pc = "match" /\ ~msg.some) ~> (pc = "closed")

\* C2: the reply to every request answered carries the request's
\* `sequence` unchanged, whatever its JSON type (string, number, null,
\* object), for get_version and for parse_text alike.
C2_SequenceEchoed ==
    \A k \in 1..Len(sout) :
        /\ k <= Len(received)
        /\ Get(received[k], "sequence").some =>
              /\ sout[k].msg.t = "obj"
              /\ "sequence" \in DOMAIN sout[k].msg.v
              /\ sout[k].msg.v["sequence"] = Get(received[k], "sequence").val

\* Two requests answered, a get_version and a parse_text, the sequence of
\* one a string or a number and of the other null or an object.
C2_Witness ==
    /\ Len(sout) = 2
    /\ sout[2].flushed
    /\ \E i, j \in 1..2 :
          /\ ActionIs(received[i], StrGetVersion)
          /\ ActionIs(received[j], StrParseText)
          /\ Get(received[i], "sequence").some
          /\ Get(received[i], "sequence").val.t \in {"str", "num"}
          /\ Get(received[j], "sequence").some
          /\ Get(received[j], "sequence").val.t \in {"null", "obj"}

\* The data of the reply to a request: {"version": 1}, or the array
\* tokenize_lines returns for the request's text.
DataFor(request) ==
    IF ActionIs(request, StrGetVersion)
    THEN JObj("version" :> JNum(1))
    ELSE JArr(TokenizeLines(dict, NewWorker,
                            Index(Index(request, "params"), "text").v).res)

\* C3: requests and replies alternate.  Whenever get_message is about to
\* be called, send_message has been called exactly once per request
\* received; while a request is being handled exactly one reply is
\* outstanding; the k-th call of send_message was handed the whole reply
\* (sequence and data) to the k-th request; and every call but the last
\* had succeeded before the next request was read, so the replies leave in
\* the order of the requests.
C3_RequestsAndRepliesAlternate ==
    /\ pc = "recv" => Len(sout) = Len(received)
    /\ (pc = "match" /\ msg.some) => Len(sout) = Len(received) - 1
    /\ (pc = "match" /\ ~msg.some) => Len(sout) = Len(received)
    /\ Len(sout) \in {Len(received) - 1, Len(received)}
    /\ \A k \in 1..Len(sout) :
          /\ sout[k].msg =
                JObj(("sequence" :> Index(received[k], "sequence"))
                     @@ ("data" :> DataFor(received[k])))
          /\ k < Len(received) => sout[k].flushed /\ sout[k].payload

\* The loop is back at get_message after two requests and two replies, the
\* second a parse_text.
C3_Witness ==
    /\ pc = "recv"
    /\ Len(received) = 2
    /\ Len(sout) = 2
    /\ ActionIs(received[2], StrParseText)
    /\ received[1] # received[2]

(***************************************************************************)
(* tokenize_lines: line terminators and whitespace-only texts              *)
(***************************************************************************)
\* The `source` of an element of res: of an object its key "source", of a
\* token's pair list the value of its first pair.
SourceOf(e) == IF e.t = "obj" THEN e.v["source"].v ELSE e.v[1].v[2].v

\* How often the char c occurs in str.
Count(str, c) == Cardinality({i \in 1..Len(str) : str[i] = c})

\* The positions of the carriage returns of str that no line feed follows,
\* and of those that another char follows.
BareCRs(str) ==
    {i \in 1..Len(str) : str[i] = "\r" /\ (i = Len(str) \/ str[i + 1] # "\n")}

InnerBareCRs(str) ==
    {i \in 1..Len(str) - 1 : str[i] = "\r" /\ str[i + 1] # "\n"}

\* The carriage returns in the sources of the objects of res (the dummy
\* records and the {"source": part} objects).
CRsInSources ==
    LET objs == {i \in 1..Len(res) : res[i].t = "obj"}
        n[S \in SUBSET objs] ==
            IF S = {} THEN 0
            ELSE LET i == CHOOSE x \in S : TRUE
                 IN  Count(SourceOf(res[i]), "\r") + n[S \ {i}]
    IN  n[objs]

\* C11 as claimed: no line terminator char, neither a line feed nor a
\* carriage return (followed by a line feed or not), occurs in the source
\* of any record.
C11_NoTerminatorInSource ==
    \A i \in 1..Len(res) :
        Count(SourceOf(res[i]), "\n") = 0 /\ Count(SourceOf(res[i]), "\r") = 0

\* C11 as amended: no line feed occurs in the source of any record, nor
\* does a carriage return that a line feed follows in the text; a carriage
\* return that another char follows is no line terminator and is kept in the
\* source of the dummy record of its whitespace run (tokens never hold one).
C11_OnlyLineFeedTerminatorsRemoved ==
    /\ \A i \in 1..Len(res) : Count(SourceOf(res[i]), "\n") = 0
    /\ \A i \in 1..Len(res) :
          res[i].t = "arr" => Count(SourceOf(res[i]), "\r") = 0
    /\ CRsInSources <= Cardinality(BareCRs(text))
    /\ pipeState = "returned" => CRsInSources >= Cardinality(InnerBareCRs(text))

\* tokenize_lines has returned from a text with a carriage return before a
\* word char and a carriage return before a line feed: one is in a source.
C11_Witness ==
    /\ pipeState = "returned"
    /\ InnerBareCRs(text) # {}
    /\ \E i \in 1..Len(text) - 1 : text[i] = "\r" /\ text[i + 1] = "\n"
    /\ \E i \in 1..Len(res) : Count(SourceOf(res[i]), "\r") = 1
    /\ \E i \in 1..Len(res) : res[i].t = "arr"

\* res is exactly one dummy record whose source is str.
OneDummyRecord(str) ==
    /\ Len(res) = 1
    /\ res[1].t = "obj"
    /\ DOMAIN res[1].v = {"source", "ipadic", "ipadic-neologd", "unidic-mecab-translate"}
    /\ res[1].v["source"] = JStr(str)
    /\ \A key \in DOMAIN res[1].v \ {"source"} : res[1].v[key] = JNull

\* C12 as claimed: for every (non-empty) text of whitespace chars only,
\* tokenize_lines returns exactly one record, a dummy record whose source
\* is the whole text.
C12_WhitespaceTextOneDummy ==
    (pipeState = "returned" /\ text # <<>> /\ AllWhitespace(text))
        => OneDummyRecord(text)

\* C12 as amended: for every non-empty text of whitespace chars only that
\* holds no line feed, tokenize_lines returns exactly one record, a dummy
\* record whose source is the whole text.
C12_OneLineWhitespaceTextOneDummy ==
    (pipeState = "returned" /\ text # <<>> /\ AllWhitespace(text)
        /\ Count(text, "\n") = 0)
        => OneDummyRecord(text)

\* tokenize_lines has returned from a text of three whitespace chars of
\* two kinds and no line feed.
C12_Witness ==
    /\ pipeState = "returned"
    /\ Len(text) = 3
    /\ AllWhitespace(text)
    /\ Count(text, "\n") = 0
    /\ Count(text, " ") = 2
    /\ Count(text, "U3000") = 1
    /\ Len(res) = 1

(***************************************************************************)
(* do_stuff: fatal requests, get_version, failures                         *)
(***************************************************************************)
\* A request do_stuff cannot answer: its action is missing or is neither
\* "get_version" nor "parse_text", or it is a parse_text whose params.text
\* is no string.
FatalRequest(m) ==
    LET action == Index(m, "action") IN
    \/ action \notin {JStr(StrGetVersion), JStr(StrParseText)}
    \/ /\ action = JStr(StrParseText)
       /\ Index(Index(m, "params"), "text").t # "str"

\* C13: a request whose action is missing or unknown, and a parse_text
\* whose params.text is no string, is fatal.  Handling it writes nothing and
\* ends the process by a panic; so such a request is the last one ever
\* read, it has no reply (the replies written are those of the requests
\* before it), and nothing happens after the panic.
C13_FatalRequest ==
    /\ [](\A k \in 1..Len(received) :
            FatalRequest(received[k]) =>
                /\ k = Len(received)
                /\ Len(sout) = k - 1
                /\ pc \in {"match", "panicked"})
    /\ [][(pc = "match" /\ msg.some /\ FatalRequest(msg.val))
            => (pc' = "panicked" /\ sout' = sout /\ sin' = sin
                /\ received' = received)]_vars
    /\ [][pc # "panicked"]_vars

\* The process has panicked on a request of unknown action, with no reply
\* written and a later frame left unread on stdin.
C13_Witness ==
    /\ pc = "panicked"
    /\ Len(received) = 1
    /\ Index(received[1], "action") = JStr(<<"q", "u", "i", "t">>)
    /\ sout = <<>>
    /\ sin.frames # <<>>

\* The process has panicked on a parse_text whose text is a number, after a
\* request that was answered.
C13_WitnessText ==
    /\ pc = "panicked"
    /\ Len(received) = 2
    /\ ActionIs(received[2], StrParseText)
    /\ Len(sout) = 1

(***************************************************************************)
(* Specification RecvSpec: get_message called on every short byte stream,  *)
(* again after every value it returns.                                     *)
(***************************************************************************)
Endians == {"little", "big"}

\* Payloads: JSON texts, and bytes that are no JSON text or no UTF-8.
GoodPayloads ==
    {<<49>>, <<32, 49, 49, 32>>, <<91, 93>>, <<91, 49, 44, 49, 93>>,
     <<34, 195, 169, 34>>, <<110, 117, 108, 108>>,
     <<123, 34, 97, 34, 58, 49, 125>>}

BadPayloads ==
    {<<>>, <<255>>, <<34, 195, 34>>, <<195, 169>>, <<91>>, <<49, 93>>, <<48, 49>>}

\* A length prefix and a payload: the prefix declares the payload's length,
\* or for some payloads a length that is off.
Chunks(e) ==
    {LengthPrefix(e, Usize(Len(p))) \o p : p \in GoodPayloads \cup BadPayloads}
    \cup {LengthPrefix(e, Usize(n)) \o p :
             n \in {0, 2, 4, 258, 16777216}, p \in {<<49>>, <<91, 49, 44, 49, 93>>}}

\* How a stream ends: at a frame boundary, or inside a prefix.
StreamEnds == {<<>>, <<1>>, <<1, 0, 0>>}

RECURSIVE ChunksUpTo(_, _)
ChunksUpTo(e, n) ==
    IF n = 0 THEN {<<>>}
    ELSE LET shorter == ChunksUpTo(e, n - 1) IN
         shorter \cup {x \o c : x \in shorter, c \in Chunks(e)}

RecvInit ==
    /\ endian \in Endians
    /\ wire \in {x \o end : x \in ChunksUpTo(endian, MaxChunks), end \in StreamEnds}
    /\ rpos = 0
    /\ gets = <<>>
    /\ puts = <<>>
    /\ payloadLen = <<>>
    /\ prefix = <<>>
    /\ SegIdle /\ MapIdle /\ WorkerIdle /\ PipeIdle /\ SessIdle

\* One call of get_message, the first or one after a call that returned a
\* value (an Err ends do_stuff).
FrameReceive ==
    /\ \A k \in {Len(gets)} \ {0} : gets[k].res = "some"
    /\ \A k \in {Len(puts)} \ {0} : puts[k].ok
    /\ LET r == GetMessageAt(endian, wire, rpos) IN
        /\ rpos' = r.pos
        /\ gets' = Append(gets, [from |-> rpos, to |-> r.pos, res |-> r.res,
                                 err |-> r.err, val |-> r.val])
    /\ UNCHANGED <<endian, wire, puts, payloadLen, prefix>>
    /\ UNCHANGED <<segVars, mapVars, workerVars, pipeVars, sessVars>>

RecvNext == FrameReceive

RecvSpec == RecvInit /\ [][RecvNext]_vars

\* The JSON texts of the model and the values they stand for.
JsonTexts ==
    {<<<<49>>, JNum(1)>>,
     <<<<32, 49, 49, 32>>, JNum(11)>>,
     <<<<91, 93>>, JArr(<<>>)>>,
     <<<<91, 49, 44, 49, 93>>, JArr(<<JNum(1), JNum(1)>>)>>,
     <<<<34, 195, 169, 34>>, JStr(<<"U00E9">>)>>,
     <<<<110, 117, 108, 108>>, JNull>>,
     <<<<123, 34, 97, 34, 58, 49, 125>>, JObj("a" :> JNum(1))>>}

\* The length four bytes declare, when it is below 65536 (else -1).
Declared(e, b) ==
    IF e = "little"
    THEN IF b[3] = 0 /\ b[4] = 0 THEN b[1] + 256 * b[2] ELSE -1
    ELSE IF b[2] = 0 /\ b[1] = 0 THEN b[4] + 256 * b[3] ELSE -1

\* C14: a call of get_message at a frame boundary returns the end of the
\* stream exactly when no byte is left (and consumes nothing); it fails when
\* the stream ends inside the 4-byte prefix or before the declared payload
\* bytes, or when the payload (an empty one included) is no UTF-8 or no
\* JSON text; otherwise it returns the value the payload stands for and has
\* consumed exactly 4 + length bytes.
C14_ReceiveOutcome ==
    \A k \in 1..Len(gets) :
        LET g == gets[k]
            left == Len(wire) - g.from
            n == Declared(endian, SubSeq(wire, g.from + 1, g.from + 4))
            payload == SubSeq(wire, g.from + 5, g.from + 4 + n)
        IN  /\ g.res = "none" <=> left = 0
            /\ g.res = "none" => g.to = g.from
            /\ left \in 1..3 => g.res = "err"
            /\ left >= 4 =>
                  IF n = -1 \/ n > left - 4 THEN g.res = "err"
                  ELSE IF \E p \in JsonTexts : p[1] = payload
                  THEN /\ g.res = "some"
                       /\ \E p \in JsonTexts : p[1] = payload /\ p[2] = g.val
                       /\ g.to = g.from + 4 + n
                  ELSE g.res = "err"

\* get_message has returned two values and then the end of the stream.
C14_Witness ==
    /\ Len(gets) = 3
    /\ gets[1].res = "some" /\ gets[2].res = "some" /\ gets[3].res = "none"
    /\ gets[1].val # gets[2].val
    /\ gets[2].val.t = "obj"

\* get_message has failed on a stream that ends before the declared
\* payload bytes, after a value.
C14_WitnessShortPayload ==
    /\ Len(gets) = 2
    /\ gets[2].res = "err" /\ gets[2].err = "eof"
    /\ Len(wire) - gets[2].from >= 5

\* get_message has failed on a payload of length 0.
C14_WitnessEmptyPayload ==
    /\ Len(gets) = 1
    /\ gets[1].res = "err" /\ gets[1].err = "json"
    /\ gets[1].to = 4

\* get_message has failed on a payload that is no UTF-8.
C14_WitnessNotUtf8 ==
    /\ Len(gets) = 2
    /\ gets[2].res = "err" /\ gets[2].err = "utf8"

(***************************************************************************)
(* Specification PrefixSpec: the length prefix of send_message computed    *)
(* for payload lengths on both sides of 2^32.                              *)
(***************************************************************************)
LenDigits == {0, 1, 255}

\* Payload lengths below 2^40, as usizes.
PayloadLens == {d \o <<0, 0, 0>> : d \in [1..5 -> LenDigits]}

PrefixInit ==
    /\ endian \in Endians
    /\ payloadLen \in PayloadLens
    /\ prefix = <<>>
    /\ wire = <<>> /\ rpos = 0 /\ gets = <<>> /\ puts = <<>>
    /\ SegIdle /\ MapIdle /\ WorkerIdle /\ PipeIdle /\ SessIdle

\* `(s.len() as u32).to_ne_bytes()`, the buffer handed to the first write.
ComputePrefix ==
    /\ prefix = <<>>
    /\ prefix' = LengthPrefix(endian, payloadLen)
    /\ UNCHANGED <<endian, wire, rpos, gets, puts, payloadLen>>
    /\ UNCHANGED <<segVars, mapVars, workerVars, pipeVars, sessVars>>

PrefixNext == ComputePrefix

PrefixSpec == PrefixInit /\ [][PrefixNext]_vars

\* C15 as claimed: the four bytes of the prefix, read in the target's byte
\* order, are the exact byte length of the payload, for every length, those
\* of 2^32 and more included.
C15_PrefixIsExactLength ==
    prefix # <<>> =>
        LET low == IF endian = "little" THEN prefix
                   ELSE <<prefix[4], prefix[3], prefix[2], prefix[1]>>
        IN  /\ \A i \in 1..4 : low[i] = payloadLen[i]
            /\ \A i \in 5..8 : payloadLen[i] = 0

(***************************************************************************)
(* Specification FrameSpec: send_message writes frames to a byte stream    *)
(* and get_message reads them back.                                        *)
(***************************************************************************)
SendValues ==
    {JNum(1), JStr(<<"U00E9">>), JArr(<<JNum(11), JNull>>),
     JObj("a" :> JNum(1)), JObj("k" :> JStr(<<"a", " ", "U3042">>))}

FrameInit ==
    /\ endian \in Endians
    /\ wire = <<>>
    /\ rpos = 0
    /\ gets = <<>>
    /\ puts = <<>>
    /\ payloadLen = <<>>
    /\ prefix = <<>>
    /\ SegIdle /\ MapIdle /\ WorkerIdle /\ PipeIdle /\ SessIdle

\* One call of send_message, the first or one after a call that returned
\* Ok (an Err ends do_stuff), before the reader starts.
FrameSend ==
    /\ gets = <<>>
    /\ Len(puts) < MaxSends
    /\ \A k \in {Len(puts)} \ {0} : puts[k].ok
    /\ \E v \in SendValues, oc \in WriterOutcomes :
          LET sent == SendMessageOn(endian, wire, v, oc) IN
          /\ payloadLen' = Usize(Len(ValueToString(v)))
          /\ prefix' = LengthPrefix(endian, payloadLen')
          /\ wire' = sent.wire
          /\ puts' = Append(puts, [value |-> v, from |-> Len(wire),
                                   to |-> Len(sent.wire), ok |-> sent.ok])
    /\ UNCHANGED <<endian, rpos, gets>>
    /\ UNCHANGED <<segVars, mapVars, workerVars, pipeVars, sessVars>>

FrameNext == FrameSend \/ FrameReceive

FrameSpec == FrameInit /\ [][FrameNext]_vars

\* C18 as claimed: when every call of send_message has returned Ok, the
\* calls of get_message that follow return the values sent, in order, and
\* the call after the last value returns the end of the stream.
C18_RoundTrip ==
    (\A k \in 1..Len(puts) : puts[k].ok) =>
        \A i \in 1..Len(gets) :
            /\ i <= Len(puts) =>
                  gets[i].res = "some" /\ gets[i].val = puts[i].value
            /\ i = Len(puts) + 1 => gets[i].res = "none"

\* C20 as claimed: a call of send_message that has returned Ok has
\* appended one whole frame to the stream: the four bytes of the prefix
\* and then every byte of the payload, also when the writer accepts fewer
\* bytes than it is offered in a call of write.
C20_SuccessMeansWholeFrame ==
    \A k \in 1..Len(puts) :
        puts[k].ok =>
            LET str == ValueToString(puts[k].value) IN
            /\ puts[k].to - puts[k].from = 4 + Len(str)
            /\ SubSeq(wire, puts[k].from + 5, puts[k].to) = str

(***************************************************************************)
(* do_stuff: get_version, failures, and what a parse_text reply depends on *)
(***************************************************************************)
\* C16: the reply to every get_version request has the data
\* {"version": 1}, whatever the request's params are (absent, or of any
\* type), and handling the request writes that one reply and neither calls
\* the Analyzer nor changes the worker.
C16_GetVersionFixedReply ==
    /\ [](\A k \in 1..Len(sout) :
            Index(received[k], "action") = JStr(StrGetVersion) =>
                /\ sout[k].msg.t = "obj"
                /\ DOMAIN sout[k].msg.v = {"sequence", "data"}
                /\ sout[k].msg.v["data"] = JObj("version" :> JNum(1)))
    /\ [][(pc = "match" /\ msg.some
            /\ Index(msg.val, "action") = JStr(StrGetVersion))
            => (worker' = worker /\ dict' = dict /\ Len(sout') = Len(sout) + 1)]_vars

\* A get_version whose params is a number has been answered after a
\* parse_text made the Analyzer run.
C16_Witness ==
    /\ Len(sout) = 2
    /\ pc = "recv"
    /\ Index(received[2], "action") = JStr(StrGetVersion)
    /\ Index(received[2], "params") = JNum(5)
    /\ worker.calls # <<>>

\* C17: a failure ends the loop for good.  A call of send_message that has
\* failed is the last one and do_stuff has returned its Err; a get_message
\* that meets a broken frame makes do_stuff return without reading or
\* writing more; and once do_stuff has returned an Err nothing is received
\* or sent any more.
C17_FailureIsTerminal ==
    /\ [](\A k \in 1..Len(sout) :
            ~sout[k].flushed =>
                k = Len(sout) /\ pc = "exited" /\ Len(received) = k)
    /\ [](pc = "exited" => Len(sout) = Len(received))
    /\ [][(/\ pc = "recv"
           /\ \/ sin.frames = <<>> /\ sin.tail # "none"
              \/ sin.frames # <<>> /\ Head(sin.frames).kind # "json")
            => (pc' = "exited" /\ sout' = sout /\ received' = received)]_vars
    /\ [][pc # "exited"]_vars

\* do_stuff has returned the Err of a send_message whose flush or write
\* failed, with a frame left unread on stdin.
C17_Witness ==
    /\ pc = "exited"
    /\ Len(sout) = 1
    /\ ~sout[1].flushed
    /\ sin.frames # <<>>

\* do_stuff has returned the Err of get_message on a frame that is no
\* JSON text, after a request that was answered.
C17_WitnessReceive ==
    /\ pc = "exited"
    /\ Len(sout) = 1
    /\ sout[1].flushed
    /\ Len(received) = 1
    /\ sin = [frames |-> <<>>, tail |-> "none"]

\* Whether sub is a contiguous part of str.
IsSubstring(sub, str) ==
    \E i \in 0..Len(str) - Len(sub) : SubSeq(str, i + 1, i + Len(sub)) = sub

\* The text of a parse_text request.
RequestText(request) == Index(Index(request, "params"), "text").v

\* C19: the records of a parse_text reply depend on the request's text
\* only (and the dictionary): whatever requests came before, they are the
\* records a fresh worker returns for the text; so two requests of the same
\* text get the same records, and the source of every token record is part
\* of the request's own text, never a token of an earlier run.
C19_ReplyDependsOnTextOnly ==
    \A k \in 1..Len(sout) :
        Index(received[k], "action") = JStr(StrParseText) =>
            LET data == sout[k].msg.v["data"] IN
            /\ data = JArr(TokenizeLines(dict, NewWorker, RequestText(received[k])).res)
            /\ \A j \in 1..Len(sout) :
                  (/\ Index(received[j], "action") = JStr(StrParseText)
                   /\ RequestText(received[j]) = RequestText(received[k]))
                      => sout[j].msg.v["data"] = data
            /\ \A i \in 1..Len(data.v) :
                  IsSubstring(SourceOf(data.v[i]), RequestText(received[k]))

\* Two parse_text requests of different texts have been answered, with a
\* dictionary that yields tokens for both.
C19_Witness ==
    /\ Len(sout) = 2
    /\ Index(received[1], "action") = JStr(StrParseText)
    /\ Index(received[2], "action") = JStr(StrParseText)
    /\ RequestText(received[1]) # RequestText(received[2])
    /\ \E i \in 1..Len(sout[1].msg.v["data"].v) : sout[1].msg.v["data"].v[i].t = "arr"
    /\ \E i \in 1..Len(sout[2].msg.v["data"].v) : sout[2].msg.v["data"].v[i].t = "arr"
    /\ Len(worker.calls) >= 3

=============================================================================
